---- MODULE Spec2Model ----
(***************************************************************************)
(* The Unscramble game bot (cogs/unscramble.py, cogs/admin.py,             *)
(* cogs/database.py, config.py) as a state machine.                        *)
(*                                                                         *)
(* The bot runs on one asyncio event loop: a handler runs without          *)
(* interruption from one await that really suspends to the next.  The only *)
(* awaits that suspend are the sends to the chat surface and the sleep of  *)
(* the timeout task; `await self.db_cog.update_score(...)` runs a          *)
(* coroutine that never suspends, so it completes inside the step.  Each   *)
(* action below is therefore one such uninterrupted stretch of a handler:  *)
(* from its entry (or its resumption) to its next suspending await (or its *)
(* end).  A notice is "emitted" when the handler calls send; the send then *)
(* completes or raises when the handler is resumed.                        *)
(***************************************************************************)
EXTENDS Integers, Sequences, FiniteSets, TLC

(***************************************************************************)
(* Program constants (config.py, unscramble.py).                           *)
(***************************************************************************)
TIME_LIMIT_SECONDS == 60
STUCK_GAME_TIMEOUT_SECONDS == 300
\* config.py line 16: the value HINT_PENALTY_POINTS has when the line is
\* not commented out.
HINT_PENALTY_POINTS == 10
\* config.py line 18: the offsets from the start at which hints should
\* appear.  No code reads it.
HINT_SCHEDULE_SECONDS == <<20, 35, 45>>
\* unscramble.py line 163: the scramble loop's retry limit.
MaxShuffleRetries == 5
\* unscramble.py lines 305-307: the speed tiers.
FastSeconds == 2
FastPoints == 100
MediumSeconds == 5
MediumPoints == 75
SlowPoints == 50
\* cogs/general.py: entries_to_show = 10
TopEntries == 10

(***************************************************************************)
(* Bounds of the model.  The program is explored in several scopes, which  *)
(* differ only in the inputs drawn: "lifecycle" (several sessions one      *)
(* after the other, a word too short for hints, few instants), "scoring"   *)
(* (one session, a word with a hint, the instants around the speed tiers), *)
(* "hints" (one session, a word with two hints), "store" (one session,     *)
(* and the persistence of the leaderboard), "loaded" (as "store", the bot  *)
(* starting with a leaderboard stored by an earlier run), "channels"       *)
(* (two channels) and "override" (several sessions, the instants around    *)
(* the stuck-game timeout).  The scope is fixed by the initial state.      *)
(***************************************************************************)
VARIABLE scope

\* Sessions created in one run, in the lifecycle scope and in the scoring
\* scope.
MaxGames == 3
ScoringMaxGames == 1
HintsMaxGames == 1
StoreMaxGames == 1
LoadedMaxGames == 1
ChannelsMaxGames == 2
OverrideMaxGames == 3
\* Handlers suspended in a send at the same time.
MaxPending == 2
\* Hints counted against one answer when the penalty is computed on its own.
MaxHintsGiven == 12
\* The scores of the users who play are together kept up to this total (a
\* win that would exceed it is not explored).
MaxScore == 100
\* The instants at which the clock is read, in seconds.
LifecycleInstants == <<0, 1, 70, 400>>
ScoringInstants == <<0, 2, 5, 8, 60, 75, 301>>
HintsInstants == <<0, 70, 400>>
StoreInstants == <<0, 8, 400>>
LoadedInstants == <<0, 8, 400>>
ChannelsInstants == <<0, 70, 400>>
OverrideInstants == <<0, 400, 401>>
Instants ==
  CASE scope = "scoring" -> ScoringInstants
    [] scope = "hints" -> HintsInstants
    [] scope = "store" -> StoreInstants
    [] scope = "loaded" -> LoadedInstants
    [] scope = "channels" -> ChannelsInstants
    [] scope = "override" -> OverrideInstants
    [] OTHER -> LifecycleInstants
GameLimit ==
  CASE scope = "scoring" -> ScoringMaxGames
    [] scope = "hints" -> HintsMaxGames
    [] scope = "store" -> StoreMaxGames
    [] scope = "loaded" -> LoadedMaxGames
    [] scope = "channels" -> ChannelsMaxGames
    [] scope = "override" -> OverrideMaxGames
    [] OTHER -> MaxGames
Channels == IF scope = "channels" THEN {1, 2} ELSE {1}
Users == IF scope = "store" THEN {1, 2} ELSE {1}

(***************************************************************************)
(* Text: characters are one-letter strings, a text is a sequence of them.  *)
(***************************************************************************)
\* str.upper() on the characters the model uses.
UpperChar(ch) ==
  CASE ch = "a" -> "A"
    [] ch = "b" -> "B"
    [] ch = "e" -> "E"
    [] ch = "g" -> "G"
    [] ch = "x" -> "X"
    [] OTHER -> ch

\* str.lower(), used only to build the messages users type.
LowerChar(ch) ==
  CASE ch = "A" -> "a"
    [] ch = "B" -> "b"
    [] ch = "E" -> "e"
    [] ch = "G" -> "g"
    [] ch = "X" -> "x"
    [] OTHER -> ch

Upper(s) == [i \in 1..Len(s) |-> UpperChar(s[i])]

Lower(s) == [i \in 1..Len(s) |-> LowerChar(s[i])]

IsSpace(ch) == ch = " "

RECURSIVE LStrip(_)
LStrip(s) == IF s # <<>> /\ IsSpace(Head(s)) THEN LStrip(Tail(s)) ELSE s

RECURSIVE RStrip(_)
RStrip(s) ==
  IF s # <<>> /\ IsSpace(s[Len(s)]) THEN RStrip(SubSeq(s, 1, Len(s) - 1)) ELSE s

\* str.strip()
Strip(s) == RStrip(LStrip(s))

\* str.startswith(config.COMMAND_PREFIX), COMMAND_PREFIX = "!"
StartsWithPrefix(s) == s # <<>> /\ Head(s) = "!"

\* str(user_id)
Str(u) == CASE u = 1 -> "1" [] u = 2 -> "2" [] OTHER -> "3"

(***************************************************************************)
(* The word list after _load_words: upper-cased, never empty.              *)
(***************************************************************************)
food_words ==
  CASE scope = "scoring" -> { <<"A", "B">> }
    [] scope = "hints" -> { <<"A", "B", "A", "B">> }
    [] OTHER -> { <<"A">> }

\* The texts users type: the answer in lower case, in upper case, padded
\* with blanks, a wrong word, and a command.
MessageTexts ==
  UNION { { w, Lower(w), <<" ">> \o Lower(w) \o <<" ">>, <<"!">> \o w } : w \in food_words }
    \cup { <<"x">> }

\* A draw of every position from the letters of w, with repetition.
Redraws(w) == { [i \in 1..Len(w) |-> w[f[i]]] : f \in [1..Len(w) -> 1..Len(w)] }

\* All orders random.shuffle can leave the letters of w in.
Shuffles(w) ==
  { [i \in 1..Len(w) |-> w[f[i]]] :
      f \in { h \in [1..Len(w) -> 1..Len(w)] : \A i, j \in 1..Len(w) : h[i] = h[j] => i = j } }

\* The scramble loop (unscramble.py 159-166): shuffle again while the result
\* equals the word and fewer than 5 shuffles were made.  The values
\* scrambled_word and retry_count can have when the loop ends.
RECURSIVE ScrambleLoop(_, _, _)
ScrambleLoop(original_word, scrambled_word, retry_count) ==
  IF scrambled_word = original_word /\ retry_count < MaxShuffleRetries
  THEN UNION { ScrambleLoop(original_word, s, retry_count + 1) : s \in Shuffles(original_word) }
  ELSE { [scrambled_word |-> scrambled_word, retry_count |-> retry_count] }

\* Lines 155-166: the values scrambled_word can have for a word.
Scrambles(original_word) ==
  IF Len(original_word) > 1
  THEN { r.scrambled_word : r \in ScrambleLoop(original_word, original_word, 0) }
  ELSE { original_word }

(***************************************************************************)
(* State.                                                                  *)
(***************************************************************************)
VARIABLES
  hasPenalty,    \* config has the attribute HINT_PENALTY_POINTS
  now,           \* index into Instants: the value time.time() returns
  games,         \* the game_data dicts ever created, by identity
  active_games,  \* self.active_games: a set of <<channel_id, game>> items
  tasks,         \* per game: the timeout task its start command created
  pending,       \* handlers suspended in a send
  leaderboard,   \* DatabaseCog.leaderboard: <<key, score>> items in insertion order
  dirty,         \* DatabaseCog._dirty
  notice,        \* the notice the last step handed to send, if any
  lastStart,     \* the last value time.time() gave a start command
  db,            \* replit db[LEADERBOARD_DB_KEY]: the text stored, <<>> when there is none
  db_write,      \* the text the last step tried to store in db, <<>> when it tried none
  last           \* how the handler of the last step ended

vars == <<scope, hasPenalty, now, games, active_games, tasks, pending, leaderboard,
          dirty, notice, lastStart, db, db_write, last>>

Time == Instants[now]

NoText == <<>>

\* A notice: its kind, the channel, the game it is about (0: none; for a
\* time's-up notice the game the task was created for), the word it shows
\* and the points it reports.  A win notice also shows the winner's total
\* score and a leaderboard notice the entries listed, in the order listed.
Notice(kind, c, g, word, points) ==
  [kind |-> kind, ch |-> c, g |-> g, word |-> word, points |-> points,
   total |-> 0, shown |-> <<>>]

NoNotice == Notice("None", 0, 0, NoText, 0)

\* dict operations on self.active_games
InGames(ag, c) == \E p \in ag : p[1] = c
GameOf(ag, c) == (CHOOSE p \in ag : p[1] = c)[2]
DictSet(ag, c, g) == { p \in ag : p[1] # c } \cup { <<c, g>> }
\* A deletion that empties the dict: C27 must tell it from DictDel.
DictClear(ag, c) == {}
DictDel(ag, c) == { p \in ag : p[1] # c }

\* What the model records about a game beside its dict: the number of
\* terminal events (win, late-correct, stop, timeout) actioned for it, and
\* the number of time's-up notices sent for it.  The counts stop at 2.
NoTerminal == [n |-> 0, timeout |-> 0]

\* A dict nothing refers to any more is freed.
Freed ==
  [word |-> NoText, scrambled |-> NoText, start_time |-> -1,
   hints_given |-> 0, revealed_indices |-> {}, hint_requested_by |-> {},
   timeout_task |-> 0, terminal |-> NoTerminal]

\* The dicts still referred to: by active_games, or by a suspended handler.
Referenced(ag, pd, g) ==
  \/ \E p \in ag : p[2] = g
  \/ \E p \in pd : p.g = g

Collect(gs, ag, pd) ==
  [g \in DOMAIN gs |-> IF Referenced(ag, pd, g) THEN gs[g] ELSE Freed]

\* A task that was never created (the start command did not get that far),
\* and a task that has ended.
NoTask == [ch |-> 0, game_start_time |-> 0, word |-> NoText, state |-> "none", due |-> 0]
EndedTask(how) == [NoTask EXCEPT !.state = how]

\* task.done()
TaskDone(ts, t) == ts[t].state \in {"done", "cancelled"}

\* `if 'timeout_task' in game and game['timeout_task']: if not done: cancel()`
\* on the game dict g.  cancel() only requests the cancellation: the task
\* gets CancelledError at the await it is suspended in when the event loop
\* runs it next (timeout_cancelled), and is not done until then.
CancelTimeout(ts, gs, g) ==
  IF gs[g].timeout_task # 0 /\ ~TaskDone(ts, gs[g].timeout_task)
  THEN [ts EXCEPT ![gs[g].timeout_task] =
                    [EndedTask("cancelling") EXCEPT !.ch = ts[gs[g].timeout_task].ch]]
  ELSE ts

\* db.get(key) when the key is absent (None), and no write in a step.
NoValue == <<>>
\* A value under the key that is neither a str nor a dict (a list, say): one
\* token that is no character.
UnexpectedValue == <<"list">>
NoWrite == <<>>

\* A step of a handler that does not touch the database.
StoreIdle == db' = db /\ db_write' = NoWrite

\* How the handler of the last step ended: "None" (it ended or suspended
\* normally), the exception it let escape, or "NoMatch" for a listener that
\* returned without acting on the message.
Ended(how) == last' = how

Suspended(kind, c, g, u) == [kind |-> kind, ch |-> c, g |-> g, user |-> u]

Bump(n) == IF n < 2 THEN n + 1 ELSE n

InitIn(sc) ==
  /\ scope = sc
  /\ hasPenalty \in BOOLEAN
  /\ now = 1
  /\ games = <<>>
  /\ active_games = {}
  /\ tasks = <<>>
  /\ pending = {}
  /\ leaderboard = <<>>
  /\ dirty = TRUE
  /\ notice = NoNotice
  /\ lastStart = -1
  /\ db = NoValue
  /\ db_write = NoWrite
  /\ last = "None"

Init == InitIn("lifecycle")

InitScoring == InitIn("scoring")

InitHints == InitIn("hints")

InitStore == InitIn("store")

InitChannels == InitIn("channels")

InitOverride == InitIn("override")

(***************************************************************************)
(* DatabaseCog (cogs/database.py).                                         *)
(***************************************************************************)
HasKey(lb, k) == \E i \in 1..Len(lb) : lb[i][1] = k
KeyIndex(lb, k) == CHOOSE i \in 1..Len(lb) : lb[i][1] = k

\* The sum of the scores of the users who play, which the model bounds.
RECURSIVE TotalScore(_)
TotalScore(lb) ==
  IF lb = <<>> THEN 0
  ELSE (IF \E u \in Users : Head(lb)[1] = Str(u) THEN Head(lb)[2] ELSE 0)
         + TotalScore(Tail(lb))

\* self.leaderboard.get(str(user_id), 0)
get_score(lb, user_id) ==
  IF HasKey(lb, Str(user_id)) THEN lb[KeyIndex(lb, Str(user_id))][2] ELSE 0

\* A score that forgets the old total: C29 must tell it from new_score.
replaced_score(lb, user_id, points_to_add) == points_to_add

\* update_score, lines 88-89 and 93: the score it stores and returns.
new_score(lb, user_id, points_to_add) == get_score(lb, user_id) + points_to_add

\* An update that takes the points away: C30 must tell it from update_score.
update_score_deducts(lb, user_id, points_to_add) ==
  IF HasKey(lb, Str(user_id))
  THEN [lb EXCEPT ![KeyIndex(lb, Str(user_id))] = <<Str(user_id), @[2] - points_to_add>>]
  ELSE Append(lb, <<Str(user_id), 0 - points_to_add>>)

\* update_score: the leaderboard after self.leaderboard[user_id_str] = new_score
update_score(lb, user_id, points_to_add) ==
  LET user_id_str == Str(user_id)
  IN IF HasKey(lb, user_id_str)
     THEN [lb EXCEPT ![KeyIndex(lb, user_id_str)] =
                        <<user_id_str, new_score(lb, user_id, points_to_add)>>]
     ELSE Append(lb, <<user_id_str, new_score(lb, user_id, points_to_add)>>)

(***************************************************************************)
(* The stored form of the leaderboard: json.dumps and json.loads           *)
(* (cogs/database.py 127 and 45), on texts as sequences of characters.     *)
(***************************************************************************)
DigitChar(d) ==
  CASE d = 0 -> "0" [] d = 1 -> "1" [] d = 2 -> "2" [] d = 3 -> "3" [] d = 4 -> "4"
    [] d = 5 -> "5" [] d = 6 -> "6" [] d = 7 -> "7" [] d = 8 -> "8" [] OTHER -> "9"

IsDigit(ch) == ch \in {"0", "1", "2", "3", "4", "5", "6", "7", "8", "9"}

DigitValue(ch) ==
  CASE ch = "0" -> 0 [] ch = "1" -> 1 [] ch = "2" -> 2 [] ch = "3" -> 3 [] ch = "4" -> 4
    [] ch = "5" -> 5 [] ch = "6" -> 6 [] ch = "7" -> 7 [] ch = "8" -> 8 [] OTHER -> 9

\* A number that is stored by its last digit only: C20 must tell it from
\* Digits.
LastDigit(n) == << DigitChar(n % 10) >>

\* The decimal text of a score (scores are never negative).
RECURSIVE Digits(_)
Digits(n) ==
  IF n < 10 THEN << DigitChar(n) >> ELSE Digits(n \div 10) \o << DigitChar(n % 10) >>

\* One item, as json.dumps writes it: "key": score
DumpItem(item) == <<"\"", item[1], "\"", ":", " ">> \o Digits(item[2])

RECURSIVE DumpItems(_)
DumpItems(lb) ==
  IF Len(lb) = 0 THEN <<>>
  ELSE IF Len(lb) = 1 THEN DumpItem(lb[1])
  ELSE DumpItem(lb[1]) \o <<",", " ">> \o DumpItems(Tail(lb))

\* json.dumps(temp_leaderboard)
dumps(lb) == <<"{">> \o DumpItems(lb) \o <<"}">>

\* The number that starts at position i of text s: its value and the
\* position after it.
RECURSIVE ParseNumber(_, _, _)
ParseNumber(s, i, acc) ==
  IF i <= Len(s) /\ IsDigit(s[i])
  THEN ParseNumber(s, i + 1, 10 * acc + DigitValue(s[i]))
  ELSE [value |-> acc, next |-> i]

\* The items that start at position i of text s, after the items acc.
RECURSIVE ParseItems(_, _, _)
ParseItems(s, i, acc) ==
  IF i > Len(s) \/ s[i] # "\"" THEN acc
  ELSE LET key == s[i + 1]
           number == ParseNumber(s, i + 5, 0)
           item == << key, number.value >>
           found == IF HasKey(acc, key)
                    THEN [acc EXCEPT ![KeyIndex(acc, key)] = item]
                    ELSE Append(acc, item)
       IN IF number.next <= Len(s) /\ s[number.next] = ","
          THEN ParseItems(s, number.next + 2, found)
          ELSE found

\* json.loads(raw_data)
loads(raw_data) == ParseItems(raw_data, 2, <<>>)

\* _load_leaderboard: the leaderboard and the dirty flag a new DatabaseCog
\* starts with (_dirty is False unless the load sets it), when db.get gives
\* raw_data (read_ok) or raises.  A value of unexpected format empties the
\* leaderboard (lines 48-50) and leaves _dirty as it is.
_load_leaderboard(raw_data, read_ok) ==
  IF ~read_ok THEN [leaderboard |-> <<>>, dirty |-> TRUE]
  ELSE IF raw_data = NoValue THEN [leaderboard |-> <<>>, dirty |-> TRUE]
  ELSE IF raw_data = UnexpectedValue THEN [leaderboard |-> <<>>, dirty |-> FALSE]
  ELSE [leaderboard |-> loads(raw_data), dirty |-> FALSE]

\* A save that forgets a failed write: C18 must tell it from
\* _save_leaderboard.
save_clears_dirty(lb, d, is_dirty, ok) ==
  IF ~is_dirty THEN [db |-> d, dirty |-> FALSE, write |-> NoWrite]
  ELSE [db |-> IF ok THEN dumps(lb) ELSE d, dirty |-> FALSE, write |-> dumps(lb)]

\* _save_leaderboard: db, the dirty flag and the write tried, when the
\* assignment to db succeeds (ok) or raises.
_save_leaderboard(lb, d, is_dirty, ok) ==
  IF ~is_dirty THEN [db |-> d, dirty |-> FALSE, write |-> NoWrite]
  ELSE IF ok THEN [db |-> dumps(lb), dirty |-> FALSE, write |-> dumps(lb)]
  ELSE [db |-> d, dirty |-> TRUE, write |-> dumps(lb)]

\* force_save_leaderboard: self._dirty = True, then the save.
force_save_leaderboard(lb, d, ok) == _save_leaderboard(lb, d, TRUE, ok)

\* Leaderboards an earlier run of the bot can have stored (a user id is kept
\* as one token of the text): eleven users with scores of every tier, and
\* ten users who won with their points used up by the hint penalty.
StoredScores ==
  << <<"3", 50>>, <<"4", 100>>, <<"1", 50>>, <<"6", 0>>, <<"7", 75>>, <<"8", 100>>,
     <<"9", 50>>, <<"10", 0>>, <<"11", 75>>, <<"12", 50>>, <<"13", 100>> >>
StoredZeros ==
  << <<"3", 0>>, <<"1", 0>>, <<"4", 0>>, <<"5", 0>>, <<"6", 0>>, <<"7", 0>>,
     <<"8", 0>>, <<"9", 0>>, <<"10", 0>>, <<"11", 0>> >>

\* What db holds under the leaderboard key when the bot starts.
StoredTexts == { NoValue, dumps(StoredScores), dumps(StoredZeros), UnexpectedValue }

\* The bot starts with a stored leaderboard: DatabaseCog.__init__ loads it.
InitLoaded ==
  /\ scope = "loaded"
  /\ hasPenalty \in BOOLEAN
  /\ now = 1
  /\ games = <<>>
  /\ active_games = {}
  /\ tasks = <<>>
  /\ pending = {}
  /\ db \in StoredTexts
  /\ leaderboard = _load_leaderboard(db, TRUE).leaderboard
  /\ dirty = _load_leaderboard(db, TRUE).dirty
  /\ notice = NoNotice
  /\ lastStart = -1
  /\ db_write = NoWrite
  /\ last = "None"

(***************************************************************************)
(* UnscrambleCog.unscramble (cogs/unscramble.py 111-215).                  *)
(***************************************************************************)
\* The embed of line 181-188 reads config.HINT_PENALTY_POINTS: with the
\* attribute missing this raises AttributeError inside the try of line 154.
ChallengeEmbedRaises == ~hasPenalty

\* Lines 147-189 (or 147-213 when the embed raises): draw the word, scramble
\* it, register the session, send the challenge; on an exception send the
\* failure notice.  ag, ts, pd are active_games, tasks and pending as the
\* caller leaves them.
StartGame(c, ag, ts, pd) ==
  IF food_words = {}
  THEN /\ notice' = Notice("NoWords", c, 0, NoText, 0)
       /\ active_games' = ag
       /\ tasks' = ts
       /\ pending' = pd
       /\ games' = Collect(games, ag, pd)
       /\ UNCHANGED lastStart
  ELSE /\ Len(games) < GameLimit
       /\ lastStart < Time
       /\ lastStart' = Time
       /\ \E original_word \in food_words :
            \E scrambled_word \in Scrambles(original_word) :
              LET g == Len(games) + 1
                  game_data == [word |-> original_word,
                                scrambled |-> scrambled_word,
                                start_time |-> Time,
                                hints_given |-> 0,
                                revealed_indices |-> {},
                                hint_requested_by |-> {},
                                timeout_task |-> 0,
                                terminal |-> NoTerminal]
              IN /\ tasks' = Append(ts, NoTask)
                 /\ active_games' = DictSet(ag, c, g)
                 /\ IF ChallengeEmbedRaises
                    THEN /\ pending' = pd \cup { Suspended("startfail", c, g, 0) }
                         /\ notice' = Notice("StartFailed", c, g, NoText, 0)
                    ELSE /\ pending' = pd \cup { Suspended("challenge", c, g, 0) }
                         /\ notice' = Notice("Challenge", c, g, scrambled_word, 0)
                 /\ games' = Collect(Append(games, game_data), active_games', pending')

\* A stuck-game test that takes the round's time limit for the stuck-game
\* timeout: C5 must tell it from IsStuck.
IsStuckAfterTimeLimit(start_time) == Time - start_time > TIME_LIMIT_SECONDS

\* The stuck-game test of line 118.
IsStuck(start_time) == Time - start_time > STUCK_GAME_TIMEOUT_SECONDS

\* The command from its entry to its first await (lines 113-121, 139-144 or
\* 147-189).
unscramble(c) ==
  /\ Cardinality(pending) < MaxPending
  /\ IF InGames(active_games, c)
     THEN IF IsStuck(games[GameOf(active_games, c)].start_time)
          THEN /\ Suspended("override", c, 0, 0) \notin pending
               /\ pending' = pending \cup { Suspended("override", c, 0, 0) }
               /\ notice' = Notice("Override", c, GameOf(active_games, c), NoText, 0)
               /\ UNCHANGED <<games, active_games, tasks, lastStart>>
          ELSE /\ notice' = Notice("AlreadyActive", c, GameOf(active_games, c),
                                   games[GameOf(active_games, c)].scrambled, 0)
               /\ UNCHANGED <<games, active_games, tasks, pending, lastStart>>
     ELSE StartGame(c, active_games, tasks, pending)
  /\ Ended("None")
  /\ StoreIdle
  /\ UNCHANGED <<scope, hasPenalty, now, leaderboard, dirty>>

\* The send of the override notice (line 121) returns, or raises.
\* Lines 124-136, then 147-189.
unscramble_override(p, ok) ==
  /\ p \in pending
  /\ p.kind = "override"
  /\ IF ok /\ InGames(active_games, p.ch)
     THEN StartGame(p.ch,
                    DictDel(active_games, p.ch),
                    CancelTimeout(tasks, games, GameOf(active_games, p.ch)),
                    pending \ {p})
     ELSE \* the send raised, or line 134 raised KeyError: the command fails
          /\ pending' = pending \ {p}
          /\ notice' = Notice("CommandError", p.ch, 0, NoText, 0)
          /\ UNCHANGED <<games, active_games, tasks, lastStart>>
  /\ Ended(IF ~ok THEN "HTTPException"
           ELSE IF ~InGames(active_games, p.ch) THEN "KeyError"
           ELSE "None")
  /\ StoreIdle
  /\ UNCHANGED <<scope, hasPenalty, now, leaderboard, dirty>>

\* The send of the challenge (line 189) returns: lines 196-207 create the
\* timeout task and store it in whatever session the channel has now.  Or it
\* raises: lines 210-213 send the failure notice.
unscramble_challenge(p, ok) ==
  /\ p \in pending
  /\ p.kind = "challenge"
  /\ IF ok
     THEN /\ tasks' = [tasks EXCEPT ![p.g] =
                         [ch |-> p.ch,
                          game_start_time |-> games[p.g].start_time,
                          word |-> games[p.g].word,
                          state |-> "sleeping",
                          due |-> Time + TIME_LIMIT_SECONDS]]
          /\ pending' = pending \ {p}
          /\ games' = Collect(IF InGames(active_games, p.ch)
                              THEN [games EXCEPT ![GameOf(active_games, p.ch)].timeout_task = p.g]
                              ELSE games,   \* KeyError, caught at line 205
                              active_games, pending')
          /\ notice' = NoNotice
     ELSE /\ pending' = (pending \ {p}) \cup { Suspended("startfail", p.ch, p.g, 0) }
          /\ notice' = Notice("StartFailed", p.ch, p.g, NoText, 0)
          /\ UNCHANGED <<games, tasks>>
  /\ Ended("None")
  /\ StoreIdle
  /\ UNCHANGED <<scope, hasPenalty, now, active_games, leaderboard, dirty, lastStart>>

\* The send of the failure notice (line 213) returns: lines 214-215 delete
\* the channel's session.  Or it raises, and the command fails there.
unscramble_failed(p, ok) ==
  /\ p \in pending
  /\ p.kind = "startfail"
  /\ pending' = pending \ {p}
  /\ IF ok
     THEN /\ active_games' = DictDel(active_games, p.ch)
          /\ notice' = NoNotice
     ELSE /\ notice' = Notice("CommandError", p.ch, 0, NoText, 0)
          /\ UNCHANGED active_games
  /\ games' = Collect(games, active_games', pending')
  /\ Ended(IF ok THEN "None" ELSE "HTTPException")
  /\ StoreIdle
  /\ UNCHANGED <<scope, hasPenalty, now, tasks, leaderboard, dirty, lastStart>>

(***************************************************************************)
(* UnscrambleCog.hint (cogs/unscramble.py 222-269).                        *)
(***************************************************************************)
\* A hint limit of one hint per letter: C11 must tell it from max_hints.
max_hints_per_letter(original_word) == Len(original_word)

\* Line 236.
max_hints(original_word) ==
  IF Len(original_word) > 1
  THEN (IF Len(original_word) \div 2 > 1 THEN Len(original_word) \div 2 ELSE 1)
  ELSE 0

\* The embed of lines 261-267 reads config.HINT_PENALTY_POINTS, after the
\* session was changed.
HintEmbedRaises == ~hasPenalty

hint(c, u) ==
  /\ IF ~InGames(active_games, c)
     THEN /\ notice' = Notice("NoGame", c, 0, NoText, 0)
          /\ UNCHANGED games
     ELSE LET g == GameOf(active_games, c)
              game == games[g]
          IN IF game.hints_given >= max_hints(game.word)
             THEN /\ notice' = Notice("NoMoreHints", c, g, NoText, 0)
                  /\ UNCHANGED games
             ELSE \E index_to_reveal \in (1..Len(game.word)) \ game.revealed_indices :
                    /\ games' = [games EXCEPT
                         ![g].hint_requested_by = game.hint_requested_by \cup { Str(u) },
                         ![g].revealed_indices = game.revealed_indices \cup { index_to_reveal },
                         ![g].hints_given = game.hints_given + 1]
                    /\ notice' = IF HintEmbedRaises
                                 THEN Notice("CommandError", c, 0, NoText, 0)
                                 ELSE Notice("Hint", c, g, game.scrambled, game.hints_given + 1)
  /\ Ended(IF /\ InGames(active_games, c)
              /\ games[GameOf(active_games, c)].hints_given
                   < max_hints(games[GameOf(active_games, c)].word)
              /\ HintEmbedRaises
           THEN "AttributeError" ELSE "None")
  /\ StoreIdle
  /\ UNCHANGED <<scope, hasPenalty, now, active_games, tasks, pending, leaderboard, dirty, lastStart>>

(***************************************************************************)
(* UnscrambleCog.on_message (cogs/unscramble.py 274-382).                  *)
(***************************************************************************)
\* Lines 305-307: the points for the speed of the answer.
SpeedPoints(time_taken) ==
  IF time_taken <= FastSeconds THEN FastPoints
  ELSE IF time_taken <= MediumSeconds THEN MediumPoints
  ELSE SlowPoints

\* Lines 310-312: max(0, points_earned - hint_penalty_applied)
Penalised(points_earned, hints_given) ==
  IF points_earned - HINT_PENALTY_POINTS * hints_given > 0
  THEN points_earned - HINT_PENALTY_POINTS * hints_given
  ELSE 0

\* A comparison of lengths only.
SameLength(content, correct_word) == Len(Strip(content)) = Len(correct_word)

\* Line 295.
IsCorrect(content, correct_word) == Upper(Strip(content)) = correct_word

\* Line 303.
InTime(time_taken) == time_taken <= TIME_LIMIT_SECONDS

\* The listener from its entry to its await (line 341 or 368), or to its end.
on_message(c, u, content) ==
  /\ IF InGames(active_games, c) /\ ~StartsWithPrefix(content)
        /\ IsCorrect(content, games[GameOf(active_games, c)].word)
     THEN LET g == GameOf(active_games, c)
              game == games[g]
              time_taken == Time - game.start_time
              requested == Str(u) \in game.hint_requested_by
              points_earned == IF requested
                               THEN Penalised(SpeedPoints(time_taken), game.hints_given)
                               ELSE SpeedPoints(time_taken)
          IN IF InTime(time_taken)
             THEN IF requested /\ ~hasPenalty
                  THEN \* line 311 raises AttributeError: the listener ends
                       /\ notice' = NoNotice
                       /\ Ended("AttributeError")
                       /\ UNCHANGED <<leaderboard, dirty, pending, games>>
                  ELSE /\ Cardinality(pending) < MaxPending
                       /\ Suspended("win", c, g, u) \notin pending
                       /\ TotalScore(leaderboard) + points_earned <= MaxScore
                       /\ leaderboard' = update_score(leaderboard, u, points_earned)
                       /\ dirty' = TRUE
                       /\ pending' = pending \cup { Suspended("win", c, g, u) }
                       /\ notice' = [Notice("Win", c, g, game.word, points_earned)
                                       EXCEPT !.total = new_score(leaderboard, u, points_earned)]
                       /\ games' = [games EXCEPT ![g].terminal.n = Bump(@)]
                       /\ Ended("None")
             ELSE /\ Cardinality(pending) < MaxPending
                  /\ Suspended("late", c, g, u) \notin pending
                  /\ pending' = pending \cup { Suspended("late", c, g, u) }
                  /\ notice' = Notice("Late", c, g, game.word, 0)
                  /\ games' = [games EXCEPT ![g].terminal.n = Bump(@)]
                  /\ Ended("None")
                  /\ UNCHANGED <<leaderboard, dirty>>
     ELSE /\ notice' = NoNotice
          /\ Ended("NoMatch")
          /\ UNCHANGED <<leaderboard, dirty, pending, games>>
  /\ StoreIdle
  /\ UNCHANGED <<scope, hasPenalty, now, active_games, tasks, lastStart>>

\* The send of the win or too-slow notice (line 341 or 368) returns: the
\* listener cancels the timeout task of the game dict it holds and deletes
\* the channel's entry (lines 345-356, 371-380; KeyError when there is none).
\* Or the send raises, and the listener ends there.
on_message_sent(p, ok) ==
  /\ p \in pending
  /\ p.kind \in {"win", "late"}
  /\ pending' = pending \ {p}
  /\ IF ok
     THEN /\ tasks' = CancelTimeout(tasks, games, p.g)
          /\ active_games' = DictDel(active_games, p.ch)
     ELSE UNCHANGED <<tasks, active_games>>
  /\ games' = Collect(games, active_games', pending')
  /\ notice' = NoNotice
  /\ Ended(IF ~ok THEN "HTTPException"
           ELSE IF ~InGames(active_games, p.ch) THEN "KeyError"
           ELSE "None")
  /\ StoreIdle
  /\ UNCHANGED <<scope, hasPenalty, now, leaderboard, dirty, lastStart>>

(***************************************************************************)
(* AdminCog.stop_game (cogs/admin.py 65-123).                              *)
(***************************************************************************)
stop_game(c) ==
  /\ IF InGames(active_games, c)
     THEN LET g == GameOf(active_games, c)
          IN /\ tasks' = CancelTimeout(tasks, games, g)
             /\ active_games' = DictDel(active_games, c)
             /\ notice' = Notice("Stopped", c, g, games[g].word, 0)
             /\ games' = Collect([games EXCEPT ![g].terminal.n = Bump(@)],
                                  active_games', pending)
     ELSE /\ notice' = Notice("NotActive", c, 0, NoText, 0)
          /\ UNCHANGED <<tasks, active_games, games>>
  /\ Ended("None")
  /\ StoreIdle
  /\ UNCHANGED <<scope, hasPenalty, now, pending, leaderboard, dirty, lastStart>>

(***************************************************************************)
(* UnscrambleCog._game_timeout_task (cogs/unscramble.py 59-104).           *)
(***************************************************************************)
\* A check that leaves out the comparison of the start times: C6 must tell
\* it from SameGame.
AnyGame(ag, gs, task) == InGames(ag, task.ch)

\* A check that compares the words and not the start times: C15 must tell it
\* from SameGame.
SameWord(ag, gs, task) ==
  InGames(ag, task.ch) /\ gs[GameOf(ag, task.ch)].word = task.word

\* Line 70: a session exists and its start time is the task's.
SameGame(ag, gs, task) ==
  InGames(ag, task.ch) /\ gs[GameOf(ag, task.ch)].start_time = task.game_start_time

\* The sleep of line 63 ends: lines 67-84 (the check and the send) or 95-97.
timeout_wake(t) ==
  /\ t \in 1..Len(tasks)
  /\ tasks[t].state = "sleeping"
  /\ Time >= tasks[t].due
  /\ IF SameGame(active_games, games, tasks[t])
     THEN LET g == GameOf(active_games, tasks[t].ch)
          IN /\ tasks' = [tasks EXCEPT ![t].state = "sending"]
             /\ notice' = Notice("TimesUp", tasks[t].ch, t, tasks[t].word, 0)
             /\ games' = [games EXCEPT ![g].terminal.n = Bump(@),
                                       ![g].terminal.timeout = Bump(@)]
     ELSE /\ tasks' = [tasks EXCEPT ![t] = EndedTask("done")]
          /\ notice' = NoNotice
          /\ UNCHANGED games
  /\ Ended("None")
  /\ StoreIdle
  /\ UNCHANGED <<scope, hasPenalty, now, active_games, pending, leaderboard, dirty, lastStart>>

\* A task that ends after its send without line 93: C7 must tell it from
\* timeout_sent.
timeout_sent_keeps_session(t) ==
  /\ t \in 1..Len(tasks)
  /\ tasks[t].state = "sending"
  /\ tasks' = [tasks EXCEPT ![t] = EndedTask("done")]
  /\ games' = Collect(games, active_games, pending)
  /\ notice' = NoNotice
  /\ Ended("None")
  /\ StoreIdle
  /\ UNCHANGED <<scope, hasPenalty, now, active_games, pending, leaderboard, dirty, lastStart>>

\* The send of line 84 returns or raises (lines 85-90 catch what it raises):
\* line 93 deletes the channel's entry (KeyError, caught at line 102, when
\* there is none).
timeout_sent(t) ==
  /\ t \in 1..Len(tasks)
  /\ tasks[t].state = "sending"
  /\ tasks' = [tasks EXCEPT ![t] = EndedTask("done")]
  /\ active_games' = DictDel(active_games, tasks[t].ch)
  /\ games' = Collect(games, active_games', pending)
  /\ notice' = NoNotice
  /\ Ended("None")
  /\ StoreIdle
  /\ UNCHANGED <<scope, hasPenalty, now, pending, leaderboard, dirty, lastStart>>

\* A cancelled task that still deletes the channel's entry before it ends:
\* C25 must tell it from timeout_cancelled.
timeout_cancelled_removes(t) ==
  /\ t \in 1..Len(tasks)
  /\ tasks[t].state = "cancelling"
  /\ tasks' = [tasks EXCEPT ![t] = EndedTask("cancelled")]
  /\ active_games' = DictDel(active_games, tasks[t].ch)
  /\ games' = Collect(games, active_games', pending)
  /\ notice' = NoNotice
  /\ Ended("None")
  /\ StoreIdle
  /\ UNCHANGED <<scope, hasPenalty, now, pending, leaderboard, dirty, lastStart>>

\* The task was cancelled in its sleep (line 63) or in its send (line 84):
\* CancelledError is raised there, passes the `except Exception` of line 89
\* and is caught at line 99, which only logs.
timeout_cancelled(t) ==
  /\ t \in 1..Len(tasks)
  /\ tasks[t].state = "cancelling"
  /\ tasks' = [tasks EXCEPT ![t] = EndedTask("cancelled")]
  /\ notice' = NoNotice
  /\ Ended("None")
  /\ StoreIdle
  /\ UNCHANGED <<scope, hasPenalty, now, games, active_games, pending, leaderboard,
                 dirty, lastStart>>

(***************************************************************************)
(* The clock.                                                              *)
(***************************************************************************)
Tick ==
  /\ now < Len(Instants)
  /\ now' = now + 1
  /\ notice' = NoNotice
  /\ Ended("None")
  /\ StoreIdle
  /\ UNCHANGED <<scope, hasPenalty, games, active_games, tasks, pending, leaderboard,
                 dirty, lastStart>>

(***************************************************************************)
(* DatabaseCog: the periodic save, the reset, start-up and shutdown        *)
(* (cogs/database.py), and the commands that use them.                     *)
(***************************************************************************)
\* _periodic_save_task, one round of its loop (lines 151-155): the sleep is
\* over, and the leaderboard is saved if it is dirty.
periodic_save(ok) ==
  /\ notice' = NoNotice
  /\ Ended("None")
  /\ UNCHANGED <<scope, hasPenalty, now, games, active_games, tasks, pending,
                 leaderboard, lastStart>>
  /\ LET saved == _save_leaderboard(leaderboard, db, dirty, ok)
     IN /\ dirty' = saved.dirty
        /\ db' = saved.db
        /\ db_write' = saved.write

\* A reset that deletes the stored leaderboard and leaves the one in memory:
\* C13 must tell it from reset_leaderboard.
reset_keeps_memory(c, del_ok, ok) ==
  /\ LET saved == force_save_leaderboard(leaderboard, IF del_ok THEN NoValue ELSE db, ok)
     IN /\ db' = saved.db
        /\ dirty' = saved.dirty
        /\ db_write' = saved.write
  /\ notice' = Notice("LeaderboardReset", c, 0, NoText, 0)
  /\ Ended("None")
  /\ UNCHANGED <<scope, hasPenalty, now, games, active_games, tasks, pending,
                 leaderboard, lastStart>>

\* A reset without the forced save: C19 must tell it from reset_leaderboard.
reset_without_save(c, del_ok, ok) ==
  /\ leaderboard' = <<>>
  /\ db' = IF del_ok THEN NoValue ELSE db
  /\ db_write' = NoWrite
  /\ notice' = Notice("LeaderboardReset", c, 0, NoText, 0)
  /\ Ended("None")
  /\ UNCHANGED <<scope, hasPenalty, now, games, active_games, tasks, pending,
                 dirty, lastStart>>

\* AdminCog.reset_leaderboard with DatabaseCog.reset_leaderboard: the
\* leaderboard in memory is emptied, the key is deleted from db (del_ok; what
\* the deletion raises is caught), the empty leaderboard is saved by force,
\* and the reset is announced.
reset_leaderboard(c, del_ok, ok) ==
  /\ leaderboard' = <<>>
  /\ notice' = Notice("LeaderboardReset", c, 0, NoText, 0)
  /\ Ended("None")
  /\ UNCHANGED <<scope, hasPenalty, now, games, active_games, tasks, pending, lastStart>>
  /\ LET saved == force_save_leaderboard(<<>>, IF del_ok THEN NoValue ELSE db, ok)
     IN /\ dirty' = saved.dirty
        /\ db' = saved.db
        /\ db_write' = saved.write

\* A listing in the order of the dict, not sorted: C21 must tell it from
\* sorted_leaderboard.
unsorted_leaderboard(lb) == lb

\* sorted(leaderboard_data.items(), key=lambda item: item[1], reverse=True)
\* (lines 55-57): the items by falling score; sorted is stable, also with
\* reverse=True, so items of equal score keep the order of the dict.  Built
\* item by item: each item goes behind the items whose score is not lower.
RECURSIVE sorted_leaderboard(_)
sorted_leaderboard(lb) ==
  IF lb = <<>> THEN <<>>
  ELSE LET item == lb[Len(lb)]
           before == sorted_leaderboard(SubSeq(lb, 1, Len(lb) - 1))
           k == Cardinality({ i \in 1..Len(before) : before[i][2] >= item[2] })
       IN SubSeq(before, 1, k) \o <<item>> \o SubSeq(before, k + 1, Len(before))

\* sorted_leaderboard[:entries_to_show] (line 65)
first_entries(listed) ==
  SubSeq(listed, 1, IF Len(listed) < TopEntries THEN Len(listed) ELSE TopEntries)

\* GeneralCog.leaderboard: the empty-leaderboard notice, or the leaderboard
\* with the entries shown and their number (the footer of line 90).
leaderboard_view(c) ==
  /\ notice' = IF Len(leaderboard) = 0
               THEN Notice("LeaderboardEmpty", c, 0, NoText, 0)
               ELSE [Notice("Leaderboard", c, 0, NoText,
                            IF Len(leaderboard) < TopEntries THEN Len(leaderboard)
                            ELSE TopEntries)
                     EXCEPT !.shown = first_entries(sorted_leaderboard(leaderboard))]
  /\ Ended("None")
  /\ StoreIdle
  /\ UNCHANGED <<scope, hasPenalty, now, games, active_games, tasks, pending,
                 leaderboard, dirty, lastStart>>

\* The bot is shut down and started again: cog_unload saves by force
\* (save_ok), the process ends with its sessions, tasks and handlers, and the
\* new DatabaseCog loads the leaderboard from db (read_ok).
restart(save_ok, read_ok) ==
  /\ games' = <<>>
  /\ active_games' = {}
  /\ tasks' = <<>>
  /\ pending' = {}
  /\ notice' = NoNotice
  /\ Ended("None")
  /\ UNCHANGED <<scope, hasPenalty, now, lastStart>>
  /\ LET saved == force_save_leaderboard(leaderboard, db, save_ok)
         loaded == _load_leaderboard(saved.db, read_ok)
     IN /\ db' = saved.db
        /\ db_write' = saved.write
        /\ leaderboard' = loaded.leaderboard
        /\ dirty' = loaded.dirty

Next ==
  \/ \E c \in Channels : unscramble(c)
  \/ \E p \in pending, ok \in BOOLEAN : unscramble_override(p, ok)
  \/ \E p \in pending, ok \in BOOLEAN : unscramble_challenge(p, ok)
  \/ \E p \in pending, ok \in BOOLEAN : unscramble_failed(p, ok)
  \/ \E c \in Channels, u \in Users : hint(c, u)
  \/ \E c \in Channels, u \in Users, content \in MessageTexts : on_message(c, u, content)
  \/ \E p \in pending, ok \in BOOLEAN : on_message_sent(p, ok)
  \/ \E c \in Channels : stop_game(c)
  \/ \E t \in 1..Len(tasks) : timeout_wake(t)
  \/ \E t \in 1..Len(tasks) : timeout_sent(t)
  \/ \E t \in 1..Len(tasks) : timeout_cancelled(t)
  \/ Tick

Spec == Init /\ [][Next]_vars

SpecScoring == InitScoring /\ [][Next]_vars

SpecHints == InitHints /\ [][Next]_vars

\* The program when time passes, every timeout task that can run is run, and
\* every send a handler is suspended in returns or raises: the event loop
\* runs every task that is ready.  Commands and messages are left to the
\* users.
Fairness ==
  /\ WF_vars(Tick)
  /\ WF_vars(\E t \in 1..Len(tasks) : timeout_wake(t))
  /\ WF_vars(\E t \in 1..Len(tasks) : timeout_sent(t))
  /\ WF_vars(\E t \in 1..Len(tasks) : timeout_cancelled(t))
  /\ WF_vars(\E p \in pending, ok \in BOOLEAN : unscramble_override(p, ok))
  /\ WF_vars(\E p \in pending, ok \in BOOLEAN : unscramble_challenge(p, ok))
  /\ WF_vars(\E p \in pending, ok \in BOOLEAN : unscramble_failed(p, ok))
  /\ WF_vars(\E p \in pending, ok \in BOOLEAN : on_message_sent(p, ok))

SpecLive == Init /\ [][Next]_vars /\ Fairness

\* The program with its store.
NextStore ==
  \/ Next
  \/ \E ok \in BOOLEAN : periodic_save(ok)
  \/ \E c \in Channels, del_ok \in BOOLEAN, ok \in BOOLEAN : reset_leaderboard(c, del_ok, ok)
  \/ \E c \in Channels : leaderboard_view(c)
  \/ \E save_ok \in BOOLEAN, read_ok \in BOOLEAN : restart(save_ok, read_ok)

SpecStore == InitStore /\ [][NextStore]_vars

SpecLoaded == InitLoaded /\ [][NextStore]_vars

SpecChannels == InitChannels /\ [][Next]_vars

SpecOverride == InitOverride /\ [][Next]_vars

(***************************************************************************)
(* Properties.                                                             *)
(***************************************************************************)
Registered(g) == \E p \in active_games : p[2] = g

\* C1: for every session generation at most one terminal event (win,
\* late-correct, stop, timeout) is ever actioned.
C1_AtMostOneTerminalEvent ==
  \A g \in 1..Len(games) : games[g].terminal.n <= 1

C3_StartOnFreeChannelSucceeds ==
  [][\A c \in Channels :
       (~InGames(active_games, c) /\ food_words # {} /\ unscramble(c))
       => /\ notice'.kind = "Challenge"
          /\ InGames(active_games', c)
          /\ LET game == games'[GameOf(active_games', c)]
             IN /\ game.word \in food_words
                /\ game.hints_given = 0
                /\ game.revealed_indices = {}]_vars

\* C5: a start command on a channel whose session is not stuck leaves the
\* session, the tasks and the suspended handlers as they are and reports
\* AlreadyActive with the scrambled word of that session.
C5_AlreadyActiveLeavesSession ==
  [][\A c \in Channels :
       (/\ InGames(active_games, c)
        /\ Time - games[GameOf(active_games, c)].start_time <= STUCK_GAME_TIMEOUT_SECONDS
        /\ unscramble(c))
       => /\ games' = games
          /\ active_games' = active_games
          /\ tasks' = tasks
          /\ pending' = pending
          /\ notice' = Notice("AlreadyActive", c, GameOf(active_games, c),
                              games[GameOf(active_games, c)].scrambled, 0)]_vars

\* C5, its case: AlreadyActive is reported for a registered session that has
\* outlived its time limit but not the stuck-game timeout.
C5_Witness ==
  /\ notice.kind = "AlreadyActive"
  /\ Registered(notice.g)
  /\ Time - games[notice.g].start_time > TIME_LIMIT_SECONDS

\* C6: a time's-up or hint notice is only ever emitted for the session that
\* is registered when it is emitted, and a session that was removed (by the
\* stop command in particular) is never registered again: once stop has
\* removed a session, no time's-up and no hint notice for it follows.
C6_NoNoticeAfterStop ==
  /\ [][notice'.kind \in {"TimesUp", "Hint"}
          => <<notice'.ch, notice'.g>> \in active_games]_vars
  /\ [][\A p \in active_games' \ active_games : p[2] = Len(games) + 1]_vars

\* C6, its case: stop has just removed a session and cancelled the running
\* timeout task of that session.
C6_Witness ==
  /\ notice.kind = "Stopped"
  /\ ~Registered(notice.g)
  /\ notice.g \in 1..Len(tasks)
  /\ tasks[notice.g].state = "cancelling"

AnswerTimes == { Instants[i] : i \in 1..Len(Instants) }

\* C8: the points of an answer do not increase with the time taken and never
\* exceed those of the fastest tier; a correct answer after the time limit
\* earns nothing, and when its handler has ended the session is terminated.
C8_PointsAndLateTermination ==
  [][/\ \A t1, t2 \in AnswerTimes, hints_given \in 0..2 :
          t1 <= t2 => /\ SpeedPoints(t2) <= SpeedPoints(t1)
                      /\ SpeedPoints(t1) <= FastPoints
                      /\ Penalised(SpeedPoints(t2), hints_given)
                           <= Penalised(SpeedPoints(t1), hints_given)
                      /\ Penalised(SpeedPoints(t1), hints_given) <= FastPoints
     /\ notice'.kind = "Win" => notice'.points <= FastPoints
     /\ notice'.kind = "Late" => notice'.points = 0 /\ leaderboard' = leaderboard
     /\ \A p \in pending \ pending' :
          p.kind = "late" => ~InGames(active_games', p.ch)]_vars

\* C9: a correct answer 8 seconds into a round, from a user who asked for no
\* hint, earns the points of the top tier, the user's total grows by exactly
\* that amount, and when the handler has ended the session is removed.
C9_AnswerAtEightSeconds ==
  [][/\ \A c \in Channels, u \in Users :
          LET g == GameOf(active_games, c)
          IN (/\ InGames(active_games, c)
              /\ Time - games[g].start_time = 8
              /\ games[g].hints_given = 0
              /\ Suspended("win", c, g, u) \in pending' \ pending)
             => /\ notice'.points = FastPoints
                /\ get_score(leaderboard', u) = get_score(leaderboard, u) + FastPoints
     /\ \A p \in pending \ pending' :
          (/\ p.kind = "win"
           /\ Time - games[p.g].start_time = 8
           /\ games[p.g].hints_given = 0)
          => <<p.ch, p.g>> \notin active_games']_vars

\* C10: a correct answer after the time limit leaves the leaderboard as it
\* is, and when its handler has ended the session it answered is removed.
C10_LateAnswerRemovesSession ==
  [][/\ \A p \in pending' \ pending :
          p.kind = "late" => leaderboard' = leaderboard /\ dirty' = dirty
     /\ \A p \in pending \ pending' :
          p.kind = "late" => /\ leaderboard' = leaderboard
                             /\ <<p.ch, p.g>> \notin active_games']_vars

\* C11: in every session the hints revealed are distinct letter indices of
\* the word (as many indices as hints given), at most max(1, len(word) div 2)
\* of them for a word of more than one letter and none for a word of one
\* letter.
C11_HintsDistinctAndBounded ==
  \A g \in 1..Len(games) :
    LET word == games[g].word
        revealed == games[g].revealed_indices
    IN /\ revealed \subseteq 1..Len(word)
       /\ Cardinality(revealed) = games[g].hints_given
       /\ Len(word) > 1 =>
            Cardinality(revealed) <= (IF Len(word) \div 2 > 1 THEN Len(word) \div 2 ELSE 1)
       /\ Len(word) <= 1 => revealed = {}

\* C11, its case: a session of a four-letter word has given its two hints.
C11_Witness ==
  \E g \in 1..Len(games) :
    /\ Len(games[g].word) = 4
    /\ games[g].hints_given = 2
    /\ Cardinality(games[g].revealed_indices) = 2

\* C12: the scrambled word of a session whose word has more than one letter
\* and two distinct letters differs from the word.
C12_ScrambleDiffers ==
  \A g \in 1..Len(games) :
    LET word == games[g].word
    IN (Len(word) > 1 /\ \E i, j \in 1..Len(word) : word[i] # word[j])
       => games[g].scrambled # word

\* C14: when the notice of a correct answer (in time or late) is handed to
\* send, the session it answers is already removed.
C14_CommittedBeforeNotice ==
  [][notice'.kind \in {"Win", "Late"}
       => <<notice'.ch, notice'.g>> \notin active_games']_vars

\* C15: a timeout task that wakes up when the channel has no session, or a
\* session whose start time is not the one the task captured, sends no notice
\* and changes neither the sessions nor the scores.
C15_StaleTimeoutDoesNothing ==
  [][\A t \in 1..Len(tasks) :
       (/\ tasks[t].state = "sleeping"
        /\ ~(/\ InGames(active_games, tasks[t].ch)
             /\ games[GameOf(active_games, tasks[t].ch)].start_time = tasks[t].game_start_time)
        /\ timeout_wake(t))
       => /\ notice' = NoNotice
          /\ active_games' = active_games
          /\ games' = games
          /\ leaderboard' = leaderboard
          /\ dirty' = dirty]_vars

\* C15, its case: a timeout task has ended while the channel holds a session
\* of another generation that was started before the task's sleep was over,
\* so the task woke up to a session that was not its own.
C15_Witness ==
  \E t \in 1..Len(tasks), g \in 1..Len(games) :
    /\ tasks[t].state = "done"
    /\ g # t
    /\ Registered(g)
    /\ games[g].start_time < TIME_LIMIT_SECONDS

C13_ViewAfterResetIsEmpty ==
  [][\A c \in Channels :
       (notice.kind = "LeaderboardReset" /\ leaderboard_view(c))
       => notice' = Notice("LeaderboardEmpty", c, 0, NoText, 0)]_vars

\* C13, its case: the empty leaderboard is shown while the win that scored
\* before the reset is still being announced.
C13_Witness ==
  /\ notice.kind = "LeaderboardEmpty"
  /\ \E p \in pending : p.kind = "win"
  /\ db = dumps(<<>>)

\* C17: no flush, periodic or forced, writes to the backend the text that the
\* backend holds at that moment, that is, the leaderboard as it was last
\* saved.  (The forced save of a reset follows the deletion of the stored
\* text and is not counted.)
C17_NoRedundantWrite ==
  [][(db_write' # NoWrite /\ notice'.kind # "LeaderboardReset") => db_write' # db]_vars

\* C18: a periodic save whose write fails ends normally with the store still
\* dirty and nothing else changed; a reset whose write fails is still
\* announced as done and leaves the store dirty; every periodic round of a
\* dirty store tries the write; and after a round whose write succeeds the
\* store is clean and the stored text reads back as the leaderboard in memory.
C18_FailedFlushIsRetried ==
  [][/\ (dirty /\ periodic_save(FALSE))
          => /\ dirty'
             /\ db' = db
             /\ leaderboard' = leaderboard
             /\ db_write' = dumps(leaderboard)
     /\ \A c \in Channels, del_ok \in BOOLEAN :
          reset_leaderboard(c, del_ok, FALSE)
          => dirty' /\ notice'.kind = "LeaderboardReset"
     /\ \A ok \in BOOLEAN :
          (dirty /\ periodic_save(ok)) => db_write' # NoWrite
     /\ (dirty /\ periodic_save(TRUE))
          => /\ ~dirty'
             /\ db' # NoValue
             /\ loads(db') = leaderboard'
             /\ leaderboard' = leaderboard]_vars

\* C18, its case: the last step tried to write a leaderboard with scores,
\* the write failed (db does not hold the text) and the store is dirty.
C18_Witness ==
  /\ dirty
  /\ leaderboard # <<>>
  /\ db_write = dumps(leaderboard)
  /\ db # db_write

\* C19: a reset whose save succeeds leaves the leaderboard empty in memory
\* and in db, and whenever the store is clean db holds the leaderboard in
\* memory: a save before or after the reset never brings back what the reset
\* cleared.
C19_ResetAndSave ==
  /\ [][\A c \in Channels, del_ok \in BOOLEAN :
          reset_leaderboard(c, del_ok, TRUE)
          => /\ leaderboard' = <<>>
             /\ loads(db') = <<>>
             /\ ~dirty']_vars
  /\ [](~dirty => (db # NoValue /\ loads(db) = leaderboard))

\* C19, its case: a reset has just emptied a leaderboard with scores (the win
\* that scored is still being announced) and saved the empty one.
C19_Witness ==
  /\ notice.kind = "LeaderboardReset"
  /\ \E p \in pending : p.kind = "win"
  /\ leaderboard = <<>>
  /\ db = dumps(<<>>)
  /\ ~dirty

\* The leaderboard as a mapping: its set of items.
AsMap(lb) == { lb[i] : i \in 1..Len(lb) }

\* C20: the leaderboard saved at shutdown and loaded at start-up (both db
\* operations succeeding) is the same mapping from user-id strings to
\* scores, and the text json.dumps writes always reads back as the
\* leaderboard it was written from.
C20_SaveLoadRoundTrip ==
  /\ [][restart(TRUE, TRUE)
          => /\ AsMap(leaderboard') = AsMap(leaderboard)
             /\ \A i \in 1..Len(leaderboard') :
                  \A j \in 1..Len(leaderboard') :
                    leaderboard'[i][1] = leaderboard'[j][1] => i = j]_vars
  /\ [](AsMap(loads(dumps(leaderboard))) = AsMap(leaderboard))

\* C20, its case: a leaderboard of two users with scores of two digits has
\* been saved and loaded by a restart.
C20_Witness ==
  /\ games = <<>>
  /\ Len(leaderboard) = 2
  /\ \A i \in 1..2 : leaderboard[i][2] >= 10
  /\ ~dirty
  /\ db = dumps(leaderboard)

\* C21: the leaderboard view lists the entries of the leaderboard with the
\* highest scores, at most 10 of them, in non-increasing order of score, and
\* entries of equal score in the order of their insertion; an entry not
\* listed has no higher score than a listed one and, at equal score, was
\* inserted later.  A win leaves the entries there are in their places and
\* puts the entry of a new user last, so the order of insertion is the order
\* in which the users first received an entry.
C21_TopTenByScoreThenInsertion ==
  [][/\ \A c \in Channels :
          (leaderboard # <<>> /\ leaderboard_view(c))
          => LET shown == notice'.shown
                 Pos(i) == KeyIndex(leaderboard, shown[i][1])
                 Listed(k) == \E i \in 1..Len(shown) : Pos(i) = k
             IN /\ notice'.kind = "Leaderboard"
                /\ Len(shown) <= TopEntries
                /\ Len(shown) = (IF Len(leaderboard) < TopEntries
                                 THEN Len(leaderboard) ELSE TopEntries)
                /\ notice'.points = Len(shown)
                /\ \A i \in 1..Len(shown) :
                     HasKey(leaderboard, shown[i][1]) /\ leaderboard[Pos(i)] = shown[i]
                /\ \A i, j \in 1..Len(shown) :
                     i < j => /\ shown[i][2] >= shown[j][2]
                              /\ shown[i][2] = shown[j][2] => Pos(i) < Pos(j)
                /\ \A k \in 1..Len(leaderboard) :
                     ~Listed(k) =>
                       \A i \in 1..Len(shown) :
                         \/ shown[i][2] > leaderboard[k][2]
                         \/ shown[i][2] = leaderboard[k][2] /\ Pos(i) < k
     /\ notice'.kind = "Win"
          => /\ Len(leaderboard') \in {Len(leaderboard), Len(leaderboard) + 1}
             /\ \A i \in 1..Len(leaderboard) : leaderboard'[i][1] = leaderboard[i][1]]_vars

\* C21, its case: a leaderboard of more than 10 entries is listed, the
\* listing does not start with the oldest entry, the scores listed fall, and
\* two neighbours in the listing have the same score.
C21_Witness ==
  /\ notice.kind = "Leaderboard"
  /\ Len(leaderboard) > TopEntries
  /\ Len(notice.shown) = TopEntries
  /\ notice.shown[1] # leaderboard[1]
  /\ notice.shown[1][2] > notice.shown[TopEntries][2]
  /\ \E i \in 1..(TopEntries - 1) : notice.shown[i][2] = notice.shown[i + 1][2]

\* C22: when the time's-up notice of a session is emitted, the session has
\* been given a hint at each offset of HINT_SCHEDULE_SECONDS that lies before
\* the time limit, up to max_hints, whether or not anyone asked for one.
C22_HintsOnSchedule ==
  [][notice'.kind = "TimesUp"
       => LET game == games[GameOf(active_games, notice'.ch)]
              offsets == Cardinality({ i \in 1..Len(HINT_SCHEDULE_SECONDS) :
                                         HINT_SCHEDULE_SECONDS[i] < TIME_LIMIT_SECONDS })
          IN game.hints_given >= (IF max_hints(game.word) < offsets
                                  THEN max_hints(game.word) ELSE offsets)]_vars

\* C23: a start command that found the channel's session stuck and whose
\* override notice has been sent ends with a new session registered for the
\* channel, started at that moment, whatever other handlers did while the
\* notice was being sent.
C23_OverrideStartsNewSession ==
  [][\A p \in pending :
       (p.kind = "override" /\ unscramble_override(p, TRUE))
       => /\ InGames(active_games', p.ch)
          /\ GameOf(active_games', p.ch) = Len(games) + 1
          /\ games'[Len(games) + 1].start_time = Time]_vars

\* C24: a terminal path that comes to its removal step when the channel has
\* no session any more (the listener after the send of its win or too-slow
\* notice, the timeout task after the send of its notice, the start command
\* after the send of its override notice) lets no exception escape and
\* leaves the sessions and the scores as they are.
C24_RemovalOfRemovedSessionIsNoOp ==
  [][/\ \A p \in pending :
          (/\ ~InGames(active_games, p.ch)
           /\ \/ p.kind \in {"win", "late"} /\ on_message_sent(p, TRUE)
              \/ p.kind = "override" /\ unscramble_override(p, TRUE))
          => /\ last' = "None"
             /\ active_games' = active_games
             /\ leaderboard' = leaderboard
     /\ \A t \in 1..Len(tasks) :
          (~InGames(active_games, tasks[t].ch) /\ timeout_sent(t))
          => /\ last' = "None"
             /\ active_games' = active_games
             /\ leaderboard' = leaderboard]_vars

\* C25: the step in which a cancelled timeout task unwinds sends no notice
\* and changes neither the sessions nor the scores, and a task whose
\* cancellation was requested never wakes up or sends again.
C25_CancelledTimeoutUnwindsSilently ==
  [][\A t \in 1..Len(tasks) :
       /\ (tasks[t].state = "cancelling" /\ tasks'[t].state = "cancelled")
            => /\ notice' = NoNotice
               /\ last' = "None"
               /\ active_games' = active_games
               /\ games' = games
               /\ leaderboard' = leaderboard
               /\ dirty' = dirty
       /\ tasks[t].state \in {"cancelling", "cancelled"}
            => /\ tasks'[t].state \in {"cancelling", "cancelled"}
               /\ ~(notice'.kind = "TimesUp" /\ notice'.g = t)]_vars

\* C25, its case: a cancelled timeout task has unwound in the last step while
\* the channel holds a session.
C25_Witness ==
  /\ \E t \in 1..Len(tasks) : tasks[t].state = "cancelled"
  /\ \A t \in 1..Len(tasks) : tasks[t].state # "cancelling"
  /\ notice = NoNotice
  /\ last = "None"
  /\ active_games # {}

\* C26: every session that is registered is removed at some later time, when
\* time passes, timers fire and every pending send returns or raises.
C26_EverySessionIsRemoved ==
  \A g \in 1..MaxGames : (Registered(g) ~> ~Registered(g))

\* The session of channel c, with its game dict and the timeout task created
\* for it, is in the next state what it is now.
SessionUnchanged(c) ==
  /\ InGames(active_games', c) = InGames(active_games, c)
  /\ InGames(active_games, c)
       => /\ GameOf(active_games', c) = GameOf(active_games, c)
          /\ games'[GameOf(active_games, c)] = games[GameOf(active_games, c)]
          /\ tasks'[GameOf(active_games, c)] = tasks[GameOf(active_games, c)]

OthersUnchanged(c) == \A other \in Channels \ {c} : SessionUnchanged(other)

\* C27: a step of a command, of the listener or of a timeout task of one
\* channel (also one that fails) leaves the sessions of every other channel
\* as they are: a step that changes the session of another channel is no
\* step of this channel's handlers.
C27_OtherChannelsUnchanged ==
  [][/\ \A c \in Channels :
          ~OthersUnchanged(c)
          => ~(\/ unscramble(c)
               \/ stop_game(c)
               \/ \E u \in Users : hint(c, u)
               \/ \E u \in Users, content \in MessageTexts : on_message(c, u, content))
     /\ \A p \in pending :
          ~OthersUnchanged(p.ch)
          => ~(\E ok \in BOOLEAN :
                 \/ unscramble_override(p, ok)
                 \/ unscramble_challenge(p, ok)
                 \/ unscramble_failed(p, ok)
                 \/ on_message_sent(p, ok))
     /\ \A t \in 1..Len(tasks) :
          ~OthersUnchanged(tasks[t].ch)
          => ~(timeout_wake(t) \/ timeout_sent(t) \/ timeout_cancelled(t))]_vars

\* C27, its case: the timeout task of one channel has removed that channel's
\* session, or a start command on it has failed, while the other channel
\* holds a session whose timeout task is running.
C27_Witness ==
  \E c \in Channels, other \in Channels :
    /\ c # other
    /\ ~InGames(active_games, c)
    /\ \E t \in 1..Len(tasks) : tasks[t].state = "done"
    /\ InGames(active_games, other)
    /\ tasks[GameOf(active_games, other)].state = "sleeping"
    /\ tasks[GameOf(active_games, other)].ch = other


\* C28: a message in a channel with no session, or whose trimmed, upper-cased
\* text is not the session's answer, changes nothing: the session, its
\* timeout task, the pending sends and all scores stay as they are, and no
\* notice is sent.
C28_NoMatchChangesNothing ==
  [][\A c \in Channels, content \in MessageTexts :
       (/\ \/ ~InGames(active_games, c)
            \/ Upper(Strip(content)) # games[GameOf(active_games, c)].word
        /\ \/ <<games, active_games, tasks, pending, leaderboard, dirty>>'
                # <<games, active_games, tasks, pending, leaderboard, dirty>>
            \/ notice' # NoNotice)
       => ~(\E u \in Users : on_message(c, u, content))]_vars

\* A message that did not match arrived while a session was running with its
\* timeout task asleep and a score on the board.
C28_Witness ==
  /\ last = "NoMatch"
  /\ leaderboard # <<>>
  /\ \E c \in Channels :
       /\ InGames(active_games, c)
       /\ tasks[GameOf(active_games, c)].state = "sleeping"


\* C29: get_score gives 0 for a user with no entry; update_score(user, delta)
\* sets that user's entry to the old total (0 when there was none) plus
\* delta, returns the new total, and leaves every other user's entry as it
\* is. Checked on every win, the one place that calls update_score.
C29_UpdateScoreAddsToOldTotal ==
  [][\A p \in pending' \ pending :
       p.kind = "win" =>
         LET k == Str(p.user)
             had == \E i \in 1..Len(leaderboard) : leaderboard[i][1] = k
             old == IF had
                    THEN leaderboard[CHOOSE i \in 1..Len(leaderboard) : leaderboard[i][1] = k][2]
                    ELSE 0
         IN /\ ~had => get_score(leaderboard, p.user) = 0
            /\ get_score(leaderboard, p.user) = old
            /\ Cardinality({ i \in 1..Len(leaderboard') : leaderboard'[i][1] = k }) = 1
            /\ get_score(leaderboard', p.user) = old + notice'.points
            /\ notice'.total = old + notice'.points
            /\ Len(leaderboard') = Len(leaderboard) + (IF had THEN 0 ELSE 1)
            /\ \A i \in 1..Len(leaderboard) :
                 leaderboard[i][1] # k => leaderboard'[i] = leaderboard[i]]_vars

\* A user who already had points has just won more, with the entries of
\* other users on the board before and after their own.
C29_Witness ==
  /\ notice.kind = "Win"
  /\ notice.points > 0
  /\ notice.total > notice.points
  /\ \E i \in 2..(Len(leaderboard) - 1) :
       /\ leaderboard[i] = <<"1", notice.total>>
       /\ leaderboard[i - 1][2] > 0


\* C30: every score held in the leaderboard is a non-negative integer in
\* every reachable state, after wins, resets, saves and restarts, starting
\* from an empty leaderboard or from a stored one without negative scores;
\* and the points of a win are a non-negative integer for every speed and
\* every number of hints, with the penalty or without it.
C30_ScoresAreNonNegative ==
  /\ \A i \in 1..Len(leaderboard) : leaderboard[i][2] \in Nat
  /\ \A time_taken \in { Instants[i] : i \in 1..Len(Instants) }, hints_given \in 0..MaxHintsGiven :
       /\ SpeedPoints(time_taken) \in Nat
       /\ Penalised(SpeedPoints(time_taken), hints_given) \in Nat

\* A win has raised a score of a stored leaderboard that also holds a zero
\* score, and the leaderboard has been saved since.
C30_Witness ==
  /\ \E i, j \in 1..Len(leaderboard) :
       /\ leaderboard[i] = <<"1", 100>>
       /\ leaderboard[j][2] = 0
  /\ db = dumps(leaderboard)
  /\ ~dirty


\* Two texts with the same letters, each as many times in one as in the other.
SameLetters(s, w) ==
  /\ Len(s) = Len(w)
  /\ \A i \in 1..Len(w) :
       Cardinality({ j \in 1..Len(s) : s[j] = w[i] }) = Cardinality({ j \in 1..Len(w) : w[j] = w[i] })

\* C31: the scrambled word of a session is a permutation of the session's
\* answer, neither of the two changes while the session's dict is in use,
\* and when a session is created the scramble loop has ended after at most
\* 5 shuffles, with a permutation of the word drawn.
C31_ScrambledIsPermutation ==
  [][/\ \A g \in 1..Len(games') :
          games'[g] # Freed => SameLetters(games'[g].scrambled, games'[g].word)
     /\ \A g \in 1..Len(games) :
          (games[g] # Freed /\ games'[g] # Freed)
          => /\ games'[g].word = games[g].word
             /\ games'[g].scrambled = games[g].scrambled
     /\ Len(games') > Len(games)
          => LET w == games'[Len(games')].word
             IN \A r \in ScrambleLoop(w, w, 0) :
                  /\ r.retry_count <= MaxShuffleRetries
                  /\ SameLetters(r.scrambled_word, w)]_vars

\* A session whose letters were shuffled into another order has been given
\* a hint and then timed out.
C31_Witness ==
  \E g \in 1..Len(games) :
    /\ Registered(g)
    /\ games[g].scrambled # games[g].word
    /\ games[g].hints_given > 0
    /\ games[g].terminal.timeout > 0


\* C32: points are added to the leaderboard for a session at most once: no
\* win is scored for a session while the notice of an earlier win of the
\* same session is still being sent.
C32_PointsAddedOncePerSession ==
  [][notice'.kind = "Win"
       => ~\E p \in pending : p.kind = "win" /\ p.g = notice'.g]_vars


\* C33: the start command's override removes a session only if the session
\* is stuck at the moment it is removed: a start command resumed after the
\* send of its override notice does not delete a session of the channel
\* whose age is within STUCK_GAME_TIMEOUT_SECONDS.
C33_OverrideRemovesOnlyStuckSession ==
  [][\A p \in pending :
       (/\ p.kind = "override"
        /\ InGames(active_games, p.ch)
        /\ ~IsStuck(games[GameOf(active_games, p.ch)].start_time))
       => ~unscramble_override(p, TRUE)]_vars


\* The start command of session g ended in the start-failure path: it is
\* sending the failure notice, or it has finished without creating the
\* timeout task.
StartFailed(ts, pd, g) ==
  /\ ts[g].state = "none"
  /\ ~\E p \in pd : p.kind = "challenge" /\ p.g = g

\* C34: no points are awarded for a session whose start command ended in
\* the start-failure notice, and once that start command has finished no
\* session from it is registered.
C34_FailedStartLeavesNothing ==
  [][/\ notice'.kind = "Win" => ~StartFailed(tasks, pending, notice'.g)
     /\ \A g \in 1..Len(games') :
          (Registered(g)' /\ StartFailed(tasks', pending', g))
          => \E p \in pending' : p.kind = "startfail" /\ p.g = g]_vars


\* C35: whenever the store is not dirty, db holds the leaderboard in memory,
\* whatever db held when the bot started (nothing, a stored leaderboard, or
\* a value of unexpected format).
C35_CleanMeansStored ==
  ~dirty => /\ db # NoValue
            /\ db # UnexpectedValue
            /\ loads(db) = leaderboard


\* C36: a correct answer within the time limit is awarded the points of its
\* speed tier (100 up to 2 s, 75 up to 5 s, else 50) when the winner asked
\* for no hint in this session, and the tier less HINT_PENALTY_POINTS for
\* every hint given, but not less than 0, when the winner did ask for one;
\* the winner's total grows by that amount.
C36_PointsByTierAndPenalty ==
  [][\A c \in Channels, u \in Users, content \in MessageTexts :
       (/\ InGames(active_games, c)
        /\ ~StartsWithPrefix(content)
        /\ Upper(Strip(content)) = games[GameOf(active_games, c)].word
        /\ Time - games[GameOf(active_games, c)].start_time <= TIME_LIMIT_SECONDS
        /\ on_message(c, u, content))
       => LET game == games[GameOf(active_games, c)]
              t == Time - game.start_time
              tier == IF t <= FastSeconds THEN FastPoints
                      ELSE IF t <= MediumSeconds THEN MediumPoints
                      ELSE SlowPoints
              less == tier - HINT_PENALTY_POINTS * game.hints_given
              awarded == IF Str(u) \in game.hint_requested_by
                         THEN (IF less > 0 THEN less ELSE 0)
                         ELSE tier
          IN /\ awarded >= 0
             /\ notice'.kind = "Win"
             /\ notice'.points = awarded
             /\ get_score(leaderboard', u) = get_score(leaderboard, u) + awarded]_vars


====
